---- MODULE Spec2Model ----
(***************************************************************************)
(* Auction lifecycle of internal/infra/database/auction/create_auction.go  *)
(* (AuctionRepository): admission by a mutex-guarded counter, one          *)
(* expiration goroutine per created auction, and the recovery pass that    *)
(* NewAuctionRepository starts with `go`.                                  *)
(*                                                                         *)
(* Time is counted in ticks, TicksPerSecond ticks to the second, so that   *)
(* time.Time values (entity timestamps, time.Now()) are finer than the     *)
(* Unix seconds the store persists.  Every statement that takes the mutex  *)
(* or calls the store is one atomic step; a goroutine's position between   *)
(* two such statements is its pc.                                          *)
(***************************************************************************)
EXTENDS Integers, FiniteSets, Sequences, TLC

\* ---------------------------------------------------------------- bounds
\* Auction ids that may ever be created (uuids in the program).
NumIds == 2
\* The ceiling: the source returns the literal 50; the model scales it.
MaxAuctions == 1
\* Process crashes followed by a restart.
MaxRestarts == 1
\* Store calls (InsertOne, UpdateOne, Find) that fail in one behaviour.
MaxStoreFailures == 1
\* Longest string an environment variable is set to.
MaxLen == 3

\* ------------------------------------------------------------------ time
\* Resolution of time.Time relative to the Unix seconds Timestamp.Unix() and
\* EndTime.Unix() persist: the program's nanoseconds, scaled to half seconds.
TicksPerSecond == 2

\* The clock runs from 0 to just under two seconds.
MaxTime == 2 * TicksPerSecond - 1

Ids == 1 .. NumIds

\* An environment variable: set to a string (a sequence of characters) or
\* not set.
EnvSet(str) == [set |-> TRUE, value |-> str]
EnvUnset == [set |-> FALSE, value |-> <<>>]

\* Values of the AUCTION_INTERVAL environment variable used by Spec: the
\* duration string "1s".
Intervals == {EnvSet(<<"1", "s">>)}

VARIABLES
    now,                  \* the wall clock, in ticks
    AUCTION_INTERVAL,     \* the environment variable
    MAX_CONCURRENT_AUCTIONS,  \* the environment variable the README documents
    store,                \* the "auctions" collection: id -> document
    activeAuctionsCount,  \* AuctionRepository.activeAuctionsCount
    call,                 \* per id: position/result of its CreateAuction call
    Timestamp,            \* per id: auctionEntity.Timestamp of the entity being created
    monitor,              \* per id: goroutine startIndividualAuctionMonitor
    recMonitor,           \* per id: goroutine startIndividualAuctionMonitorWithEndTime
    recovery,             \* pc of goroutine handleActiveAuctionsOnRestart
    activeAuctions,       \* its local slice: documents decoded by the scan, not yet handled
    restarts,             \* crashes so far
    storeFailures,        \* failed store calls so far
    manualCall            \* last UpdateAuctionStatus call from outside the lifecycle:
                          \* the status it found and the error it returned

vars == <<now, AUCTION_INTERVAL, MAX_CONCURRENT_AUCTIONS, store, activeAuctionsCount, call, Timestamp,
          monitor, recMonitor, recovery, activeAuctions, restarts,
          storeFailures, manualCall>>

\* ------------------------------------------------------------ data model
Active == "Active"
Completed == "Completed"

NoDocument == [present |-> FALSE, status |-> "none", timestamp |-> 0, endTime |-> 0]

\* AuctionEntityMongo as CreateAuction builds it.
AuctionEntityMongo(status, timestamp, endTime) ==
    [present |-> TRUE, status |-> status, timestamp |-> timestamp, endTime |-> endTime]

NoMonitor == [pc |-> "none", deadline |-> 0]
NoRecMonitor == [pc |-> "none", endTime |-> 0, deadline |-> 0]
NoManualCall == [prior |-> "none", result |-> "none"]

\* time.Time.Unix(): whole seconds, the fraction dropped.
Unix(t) == t \div TicksPerSecond

\* time.Unix(sec, 0): the instant, in ticks.
TimeUnix(sec) == sec * TicksPerSecond

\* The outcomes a store call can have: it may fail while the failure budget lasts.
StoreOutcomes == IF storeFailures < MaxStoreFailures THEN {TRUE, FALSE} ELSE {TRUE}

Failed(ok) == IF ok THEN storeFailures ELSE storeFailures + 1

\* Collection.InsertOne: adds the document under its _id.
InsertOne(st, id, doc) == [st EXCEPT ![id] = doc]

\* Mutant: the update is an upsert, creating the document it does not find.
UpdateOneUpsert(st, id, status) ==
    IF st[id].present THEN [st EXCEPT ![id].status = status]
    ELSE [st EXCEPT ![id] = [present |-> TRUE, status |-> status,
                             timestamp |-> 0, endTime |-> 0]]

\* Mutant: the update replaces the document by one that has the status only.
UpdateOneReplaces(st, id, status) ==
    IF st[id].present
    THEN [st EXCEPT ![id] = [present |-> TRUE, status |-> status,
                             timestamp |-> 0, endTime |-> 0]]
    ELSE st

\* Mutant: the filter matches every document, not the one with the _id.
UpdateOneMatchesAll(st, id, status) ==
    [j \in DOMAIN st |-> IF st[j].present THEN [st[j] EXCEPT !.status = status]
                                          ELSE st[j]]

\* Collection.UpdateOne(filter {_id: id}, {$set: {status: status}}): sets the
\* status field of the matching document; no document matching is no error.
UpdateOne(st, id, status) ==
    IF st[id].present THEN [st EXCEPT ![id].status = status] ELSE st

\* ---------------------------------------------------------- configuration
\* Five minutes, the fallback of getAuctionDuration.
DefaultDuration == 5 * 60 * TicksPerSecond

\* os.Getenv: the value, or "" for a variable that is not set.
Getenv(env) == IF env.set THEN env.value ELSE <<>>

\* The characters of the strings the model sets the variable to.
Chars == {"0", "1", "2", "s", "h", "-", "x"}

\* The strings of at most MaxLen characters.
Strings == UNION {[1 .. n -> Chars] : n \in 0 .. MaxLen}

Digit(c) == c \in {"0", "1", "2"}

DigitValue(c) == CASE c = "0" -> 0 [] c = "1" -> 1 [] c = "2" -> 2

\* time.leadingInt: the leading digits of s as a number x, and the rest.
RECURSIVE leadingInt(_, _)
leadingInt(s, x) ==
    IF s # <<>> /\ Digit(Head(s))
    THEN leadingInt(Tail(s), x * 10 + DigitValue(Head(s)))
    ELSE [x |-> x, rem |-> s]

\* The unit scan of time.ParseDuration: the characters up to the next digit.
RECURSIVE unitLen(_)
unitLen(s) == IF s = <<>> \/ Digit(Head(s)) THEN 0 ELSE 1 + unitLen(Tail(s))

\* time.unitMap, for the units Chars can spell; 0 for a string that is no
\* unit.
unitMap(u) ==
    CASE u = <<"s">> -> TicksPerSecond
      [] u = <<"h">> -> 60 * 60 * TicksPerSecond
      [] OTHER -> 0

ParseError == [err |-> TRUE, d |-> 0]

\* The loop of time.ParseDuration: number, unit, number, unit, ..., summed
\* into d.
RECURSIVE parseTerms(_, _)
parseTerms(s, d) ==
    IF s = <<>> THEN [err |-> FALSE, d |-> d]
    ELSE IF ~Digit(Head(s)) THEN ParseError
    ELSE LET li == leadingInt(s, 0)
             i == unitLen(li.rem)
             u == SubSeq(li.rem, 1, i)
         IN IF i = 0 THEN ParseError
            ELSE IF unitMap(u) = 0 THEN ParseError
            ELSE parseTerms(SubSeq(li.rem, i + 1, Len(li.rem)),
                            d + li.x * unitMap(u))

\* time.ParseDuration: [-+]? then "0" or one or more number-unit terms.
ParseDuration(str) ==
    LET signed == str # <<>> /\ Head(str) \in {"-", "+"}
        neg == signed /\ Head(str) = "-"
        s == IF signed THEN Tail(str) ELSE str
    IN IF s = <<"0">> THEN [err |-> FALSE, d |-> 0]
       ELSE IF s = <<>> THEN ParseError
       ELSE LET r == parseTerms(s, 0)
            IN IF r.err THEN ParseError
               ELSE [err |-> FALSE, d |-> IF neg THEN -r.d ELSE r.d]

\* getAuctionDuration for a given value of the variable.
Duration(env) ==
    LET r == ParseDuration(Getenv(env))
    IN IF r.err THEN DefaultDuration ELSE r.d

\* Mutant: the parse error is not looked at.
getAuctionDurationIgnoresError == ParseDuration(Getenv(AUCTION_INTERVAL)).d

getAuctionDuration == Duration(AUCTION_INTERVAL)

getMaxConcurrentAuctions == MaxAuctions

\* Mutant: the comparison lets one more auction in.
checkActiveAuctionsLimitOffByOne == activeAuctionsCount <= getMaxConcurrentAuctions

checkActiveAuctionsLimit == activeAuctionsCount < getMaxConcurrentAuctions

\* ------------------------------------------------------------------ Init
\* NewAuctionRepository on an empty database: the counter is 0, the mutex
\* free, and `go repo.handleActiveAuctionsOnRestart()` has been issued.
Init ==
    /\ now = 0
    /\ AUCTION_INTERVAL \in Intervals
    /\ MAX_CONCURRENT_AUCTIONS = EnvUnset
    /\ store = [id \in Ids |-> NoDocument]
    /\ activeAuctionsCount = 0
    /\ call = [id \in Ids |-> "idle"]
    /\ Timestamp = [id \in Ids |-> 0]
    /\ monitor = [id \in Ids |-> NoMonitor]
    /\ recMonitor = [id \in Ids |-> NoRecMonitor]
    /\ recovery = "spawned"
    /\ activeAuctions = {}
    /\ restarts = 0
    /\ storeFailures = 0
    /\ manualCall = NoManualCall

\* ------------------------------------------------- UpdateAuctionStatus
\* UpdateAuctionStatus(ctx, auctionId, status) with the store call succeeding
\* (ok) or failing: the store after the call.
UpdateAuctionStatus(id, status, ok) ==
    IF ok THEN UpdateOne(store, id, status) ELSE store

\* ------------------------------------------------------- CreateAuction
\* A request creates its entity (Timestamp = time.Now()) and enters
\* CreateAuction: the limit check, under the mutex.  Ids are uuids, so they
\* are interchangeable: they are handed out in increasing order.  The
\* entity of a call that has returned an error is dropped.
CreateAuctionCheck(id) ==
    /\ call[id] = "idle"
    /\ \A j \in Ids : j < id => call[j] # "idle"
    /\ Timestamp' = [Timestamp EXCEPT ![id] =
                       IF checkActiveAuctionsLimit THEN now ELSE 0]
    /\ call' = [call EXCEPT ![id] =
                  IF checkActiveAuctionsLimit THEN "checked" ELSE "limit"]
    /\ UNCHANGED <<now, AUCTION_INTERVAL, MAX_CONCURRENT_AUCTIONS, store, activeAuctionsCount, monitor,
                   recMonitor, recovery, activeAuctions, restarts,
                   storeFailures, manualCall>>

\* Mutant: a failed insert "releases" a slot that was never taken.
CreateAuctionInsertReleasesOnError(id) ==
    /\ call[id] = "checked"
    /\ \E ok \in StoreOutcomes :
         LET endTime == Timestamp[id] + getAuctionDuration
             doc == AuctionEntityMongo(Active, Unix(Timestamp[id]), Unix(endTime))
         IN /\ store' = IF ok THEN InsertOne(store, id, doc) ELSE store
            /\ call' = [call EXCEPT ![id] = IF ok THEN "inserted" ELSE "insertError"]
            /\ Timestamp' = [Timestamp EXCEPT ![id] = IF ok THEN @ ELSE 0]
            /\ activeAuctionsCount' =
                   IF ok THEN activeAuctionsCount ELSE activeAuctionsCount - 1
            /\ storeFailures' = Failed(ok)
    /\ UNCHANGED <<now, AUCTION_INTERVAL, MAX_CONCURRENT_AUCTIONS, monitor,
                   recMonitor, recovery, activeAuctions, restarts, manualCall>>

\* endTime := Timestamp.Add(getAuctionDuration()); InsertOne.
CreateAuctionInsert(id) ==
    /\ call[id] = "checked"
    /\ \E ok \in StoreOutcomes :
         LET endTime == Timestamp[id] + getAuctionDuration
             doc == AuctionEntityMongo(Active, Unix(Timestamp[id]), Unix(endTime))
         IN /\ store' = IF ok THEN InsertOne(store, id, doc) ELSE store
            /\ call' = [call EXCEPT ![id] = IF ok THEN "inserted" ELSE "insertError"]
            /\ Timestamp' = [Timestamp EXCEPT ![id] = IF ok THEN @ ELSE 0]
            /\ storeFailures' = Failed(ok)
    /\ UNCHANGED <<now, AUCTION_INTERVAL, MAX_CONCURRENT_AUCTIONS, activeAuctionsCount, monitor,
                   recMonitor, recovery, activeAuctions, restarts, manualCall>>

\* Mutant: the call takes two slots.
CreateAuctionIncrementByTwo(id) ==
    /\ call[id] = "inserted"
    /\ activeAuctionsCount' = activeAuctionsCount + 2
    /\ monitor' = [monitor EXCEPT ![id] =
                     [pc |-> "armed", deadline |-> now + getAuctionDuration]]
    /\ call' = [call EXCEPT ![id] = "ok"]
    /\ UNCHANGED <<now, AUCTION_INTERVAL, MAX_CONCURRENT_AUCTIONS, store, Timestamp,
                   recMonitor, recovery, activeAuctions, restarts, storeFailures,
                   manualCall>>

\* Lock; activeAuctionsCount++; Unlock; go startIndividualAuctionMonitor;
\* return nil.  The goroutine's first statement, timer :=
\* time.NewTimer(getAuctionDuration()), touches nothing shared and is taken
\* with the `go` that starts it: arming later only fires later, which
\* MonitorFire allows anyway.
CreateAuctionIncrement(id) ==
    /\ call[id] = "inserted"
    /\ activeAuctionsCount' = activeAuctionsCount + 1
    /\ monitor' = [monitor EXCEPT ![id] =
                     [pc |-> "armed", deadline |-> now + getAuctionDuration]]
    /\ call' = [call EXCEPT ![id] = "ok"]
    /\ UNCHANGED <<now, AUCTION_INTERVAL, MAX_CONCURRENT_AUCTIONS, store, Timestamp, recMonitor, recovery,
                   activeAuctions, restarts, storeFailures, manualCall>>

\* ------------------------------------------ startIndividualAuctionMonitor
\* Mutant: the slot is released whether or not the write succeeded.
MonitorFireReleasesOnError(id) ==
    /\ monitor[id].pc = "armed"
    /\ now >= monitor[id].deadline
    /\ \E ok \in StoreOutcomes :
         /\ store' = UpdateAuctionStatus(id, Completed, ok)
         /\ monitor' = [monitor EXCEPT ![id] =
                          [pc |-> IF ok THEN "written" ELSE "failed", deadline |-> 0]]
         /\ activeAuctionsCount' =
                IF ok THEN activeAuctionsCount ELSE activeAuctionsCount - 1
         /\ storeFailures' = Failed(ok)
    /\ Timestamp' = [Timestamp EXCEPT ![id] = 0]
    /\ UNCHANGED <<now, AUCTION_INTERVAL, MAX_CONCURRENT_AUCTIONS, call,
                   recMonitor, recovery, activeAuctions, restarts, manualCall>>

\* Mutant: the goroutine goes on to the release without writing the status.
MonitorFireSkipsWrite(id) ==
    /\ monitor[id].pc = "armed"
    /\ now >= monitor[id].deadline
    /\ monitor' = [monitor EXCEPT ![id] = [pc |-> "written", deadline |-> 0]]
    /\ Timestamp' = [Timestamp EXCEPT ![id] = 0]
    /\ UNCHANGED <<now, AUCTION_INTERVAL, MAX_CONCURRENT_AUCTIONS, store, storeFailures,
                   activeAuctionsCount, call, recMonitor, recovery, activeAuctions,
                   restarts, manualCall>>

\* <-timer.C; UpdateAuctionStatus(Completed); on error log and return.  The
\* entity is referenced by this goroutine alone once the call has returned,
\* and is not read after this statement.
MonitorFire(id) ==
    /\ monitor[id].pc = "armed"
    /\ now >= monitor[id].deadline
    /\ \E ok \in StoreOutcomes :
         /\ store' = UpdateAuctionStatus(id, Completed, ok)
         /\ monitor' = [monitor EXCEPT ![id] =
                          [pc |-> IF ok THEN "written" ELSE "failed", deadline |-> 0]]
         /\ storeFailures' = Failed(ok)
    /\ Timestamp' = [Timestamp EXCEPT ![id] = 0]
    /\ UNCHANGED <<now, AUCTION_INTERVAL, MAX_CONCURRENT_AUCTIONS, activeAuctionsCount, call,
                   recMonitor, recovery, activeAuctions, restarts, manualCall>>

\* Mutant: the goroutine does not return after its decrement and releases
\* again.
MonitorReleaseRepeats(id) ==
    /\ monitor[id].pc = "written"
    /\ activeAuctionsCount' = activeAuctionsCount - 1
    /\ UNCHANGED <<now, AUCTION_INTERVAL, MAX_CONCURRENT_AUCTIONS, store, call, Timestamp, monitor, recMonitor,
                   recovery, activeAuctions, restarts, storeFailures, manualCall>>

\* Lock; activeAuctionsCount--; Unlock.
MonitorRelease(id) ==
    /\ monitor[id].pc = "written"
    /\ activeAuctionsCount' = activeAuctionsCount - 1
    /\ monitor' = [monitor EXCEPT ![id].pc = "done"]
    /\ UNCHANGED <<now, AUCTION_INTERVAL, MAX_CONCURRENT_AUCTIONS, store, call, Timestamp, recMonitor,
                   recovery, activeAuctions, restarts, storeFailures, manualCall>>

\* -------------------------------------------- handleActiveAuctionsOnRestart
\* Find({status: Active}) and cursor.All: the documents that are Active now.
ActiveDocuments ==
    {[id |-> id, EndTime |-> store[id].endTime] :
        id \in {i \in Ids : store[i].present /\ store[i].status = Active}}

\* Mutant: a failed scan resets the counter.
RecoveryScanFailureResetsCount ==
    /\ recovery = "spawned"
    /\ \E ok \in StoreOutcomes :
         /\ activeAuctions' = IF ok THEN ActiveDocuments ELSE {}
         /\ recovery' = IF ~ok THEN "failed"
                        ELSE IF ActiveDocuments = {} THEN "done" ELSE "loop"
         /\ activeAuctionsCount' = IF ok THEN activeAuctionsCount ELSE 0
         /\ storeFailures' = Failed(ok)
    /\ UNCHANGED <<now, AUCTION_INTERVAL, MAX_CONCURRENT_AUCTIONS, store,
                   call, Timestamp, monitor, recMonitor, restarts, manualCall>>

\* Mutant: the pass is started again after it has finished.
RecoveryScanRunsAgain ==
    /\ recovery \in {"spawned", "done"}
    /\ \E ok \in StoreOutcomes :
         /\ activeAuctions' = IF ok THEN ActiveDocuments ELSE {}
         /\ recovery' = IF ~ok THEN "failed"
                        ELSE IF ActiveDocuments = {} THEN "done" ELSE "loop"
         /\ storeFailures' = Failed(ok)
    /\ UNCHANGED <<now, AUCTION_INTERVAL, MAX_CONCURRENT_AUCTIONS, store,
                   activeAuctionsCount, call, Timestamp, monitor, recMonitor,
                   restarts, manualCall>>

\* Mutant: the scan filters on a status no document has.
RecoveryScanFindsNone ==
    /\ recovery = "spawned"
    /\ \E ok \in StoreOutcomes :
         /\ activeAuctions' = {}
         /\ recovery' = IF ok THEN "done" ELSE "failed"
         /\ storeFailures' = Failed(ok)
    /\ UNCHANGED <<now, AUCTION_INTERVAL, MAX_CONCURRENT_AUCTIONS, store, activeAuctionsCount, call,
                   Timestamp, monitor, recMonitor, restarts, manualCall>>

RecoveryScan ==
    /\ recovery = "spawned"
    /\ \E ok \in StoreOutcomes :
         /\ activeAuctions' = IF ok THEN ActiveDocuments ELSE {}
         /\ recovery' = IF ~ok THEN "failed"
                        ELSE IF ActiveDocuments = {} THEN "done" ELSE "loop"
         /\ storeFailures' = Failed(ok)
    /\ UNCHANGED <<now, AUCTION_INTERVAL, MAX_CONCURRENT_AUCTIONS, store, activeAuctionsCount, call,
                   Timestamp, monitor, recMonitor, restarts, manualCall>>

\* Mutant: admitting a document also writes it back as Active.
RecoveryAdmitRewritesActive(a) ==
    /\ recovery = "loop"
    /\ a \in activeAuctions
    /\ activeAuctionsCount < getMaxConcurrentAuctions
    /\ activeAuctionsCount' = activeAuctionsCount + 1
    /\ recMonitor' = [recMonitor EXCEPT ![a.id] =
                        [pc |-> "spawned", endTime |-> TimeUnix(a.EndTime),
                         deadline |-> 0]]
    /\ store' = UpdateOne(store, a.id, Active)
    /\ activeAuctions' = activeAuctions \ {a}
    /\ recovery' = IF activeAuctions' = {} THEN "done" ELSE "loop"
    /\ UNCHANGED <<now, AUCTION_INTERVAL, MAX_CONCURRENT_AUCTIONS, call, Timestamp, monitor,
                   restarts, storeFailures, manualCall>>

\* Mutant: the loop of the earlier version, which closes every document it
\* finds.
RecoveryAdmitClosesAll(a) ==
    /\ recovery = "loop"
    /\ a \in activeAuctions
    /\ activeAuctionsCount < getMaxConcurrentAuctions
    /\ \E ok \in StoreOutcomes :
         /\ store' = UpdateAuctionStatus(a.id, Completed, ok)
         /\ storeFailures' = Failed(ok)
    /\ activeAuctions' = activeAuctions \ {a}
    /\ recovery' = IF activeAuctions' = {} THEN "done" ELSE "loop"
    /\ UNCHANGED <<now, AUCTION_INTERVAL, MAX_CONCURRENT_AUCTIONS, activeAuctionsCount,
                   call, Timestamp, monitor, recMonitor, restarts, manualCall>>

\* One iteration of the loop, for document a, with the counter below the
\* ceiling (checked and incremented under one Lock): count the auction and
\* start its goroutine.
RecoveryAdmit(a) ==
    /\ recovery = "loop"
    /\ a \in activeAuctions
    /\ activeAuctionsCount < getMaxConcurrentAuctions
    /\ activeAuctionsCount' = activeAuctionsCount + 1
    /\ recMonitor' = [recMonitor EXCEPT ![a.id] =
                        [pc |-> "spawned", endTime |-> TimeUnix(a.EndTime),
                         deadline |-> 0]]
    /\ activeAuctions' = activeAuctions \ {a}
    /\ recovery' = IF activeAuctions' = {} THEN "done" ELSE "loop"
    /\ UNCHANGED <<now, AUCTION_INTERVAL, MAX_CONCURRENT_AUCTIONS, store, call, Timestamp, monitor,
                   restarts, storeFailures, manualCall>>

\* Mutant: a document that finds no slot is skipped.
RecoveryForceCloseSkips(a) ==
    /\ recovery = "loop"
    /\ a \in activeAuctions
    /\ ~(activeAuctionsCount < getMaxConcurrentAuctions)
    /\ activeAuctions' = activeAuctions \ {a}
    /\ recovery' = IF activeAuctions' = {} THEN "done" ELSE "loop"
    /\ UNCHANGED <<now, AUCTION_INTERVAL, MAX_CONCURRENT_AUCTIONS, store, storeFailures, activeAuctionsCount,
                   call, Timestamp, monitor, recMonitor, restarts, manualCall>>

\* Mutant: an error of the close ends the pass, the documents not yet handled
\* left as they are.
RecoveryForceCloseReturnsOnError(a) ==
    /\ recovery = "loop"
    /\ a \in activeAuctions
    /\ ~(activeAuctionsCount < getMaxConcurrentAuctions)
    /\ \E ok \in StoreOutcomes :
         /\ store' = UpdateAuctionStatus(a.id, Completed, ok)
         /\ storeFailures' = Failed(ok)
         /\ activeAuctions' = IF ok THEN activeAuctions \ {a} ELSE {}
    /\ recovery' = IF activeAuctions' = {} THEN "done" ELSE "loop"
    /\ UNCHANGED <<now, AUCTION_INTERVAL, MAX_CONCURRENT_AUCTIONS, activeAuctionsCount, call, Timestamp,
                   monitor, recMonitor, restarts, manualCall>>

\* One iteration with the counter at the ceiling: close the auction; an
\* error is logged and the loop goes on.
RecoveryForceClose(a) ==
    /\ recovery = "loop"
    /\ a \in activeAuctions
    /\ ~(activeAuctionsCount < getMaxConcurrentAuctions)
    /\ \E ok \in StoreOutcomes :
         /\ store' = UpdateAuctionStatus(a.id, Completed, ok)
         /\ storeFailures' = Failed(ok)
    /\ activeAuctions' = activeAuctions \ {a}
    /\ recovery' = IF activeAuctions' = {} THEN "done" ELSE "loop"
    /\ UNCHANGED <<now, AUCTION_INTERVAL, MAX_CONCURRENT_AUCTIONS, activeAuctionsCount, call, Timestamp,
                   monitor, recMonitor, restarts, manualCall>>

\* ---------------------------------- startIndividualAuctionMonitorWithEndTime
\* Mutant: the timer is armed with the full configured interval.
RecMonitorStartFullInterval(id) ==
    /\ recMonitor[id].pc = "spawned"
    /\ LET remainingTime == recMonitor[id].endTime - now
       IN IF remainingTime <= 0
          THEN \E ok \in StoreOutcomes :
                 /\ store' = UpdateAuctionStatus(id, Completed, ok)
                 /\ recMonitor' = [recMonitor EXCEPT ![id].pc = "expired"]
                 /\ storeFailures' = Failed(ok)
          ELSE /\ recMonitor' = [recMonitor EXCEPT ![id].pc = "armed",
                                                   ![id].deadline = now + getAuctionDuration]
               /\ UNCHANGED <<store, storeFailures>>
    /\ UNCHANGED <<now, AUCTION_INTERVAL, MAX_CONCURRENT_AUCTIONS, activeAuctionsCount, call, Timestamp,
                   monitor, recovery, activeAuctions, restarts, manualCall>>

\* Mutant: the expired branch releases a slot after its write.
RecMonitorStartReleasesExpired(id) ==
    /\ recMonitor[id].pc = "spawned"
    /\ LET remainingTime == recMonitor[id].endTime - now
       IN IF remainingTime <= 0
          THEN /\ \E ok \in StoreOutcomes :
                    /\ store' = UpdateAuctionStatus(id, Completed, ok)
                    /\ recMonitor' = [recMonitor EXCEPT ![id].pc = "expired"]
                    /\ storeFailures' = Failed(ok)
               /\ activeAuctionsCount' = activeAuctionsCount - 1
          ELSE /\ recMonitor' = [recMonitor EXCEPT ![id].pc = "armed",
                                                   ![id].deadline = now + remainingTime]
               /\ UNCHANGED <<store, storeFailures, activeAuctionsCount>>
    /\ UNCHANGED <<now, AUCTION_INTERVAL, MAX_CONCURRENT_AUCTIONS, call, Timestamp,
                   monitor, recovery, activeAuctions, restarts, manualCall>>

\* remainingTime := endTime.Sub(time.Now()); expired: close at once and
\* return; otherwise timer := time.NewTimer(remainingTime).
RecMonitorStart(id) ==
    /\ recMonitor[id].pc = "spawned"
    /\ LET remainingTime == recMonitor[id].endTime - now
       IN IF remainingTime <= 0
          THEN \E ok \in StoreOutcomes :
                 /\ store' = UpdateAuctionStatus(id, Completed, ok)
                 /\ recMonitor' = [recMonitor EXCEPT ![id].pc = "expired"]
                 /\ storeFailures' = Failed(ok)
          ELSE /\ recMonitor' = [recMonitor EXCEPT ![id].pc = "armed",
                                                   ![id].deadline = now + remainingTime]
               /\ UNCHANGED <<store, storeFailures>>
    /\ UNCHANGED <<now, AUCTION_INTERVAL, MAX_CONCURRENT_AUCTIONS, activeAuctionsCount, call, Timestamp,
                   monitor, recovery, activeAuctions, restarts, manualCall>>

RecMonitorFire(id) ==
    /\ recMonitor[id].pc = "armed"
    /\ now >= recMonitor[id].deadline
    /\ \E ok \in StoreOutcomes :
         /\ store' = UpdateAuctionStatus(id, Completed, ok)
         /\ recMonitor' = [recMonitor EXCEPT ![id].pc = IF ok THEN "written" ELSE "failed",
                                                ![id].deadline = 0]
         /\ storeFailures' = Failed(ok)
    /\ UNCHANGED <<now, AUCTION_INTERVAL, MAX_CONCURRENT_AUCTIONS, activeAuctionsCount, call, Timestamp,
                   monitor, recovery, activeAuctions, restarts, manualCall>>

RecMonitorRelease(id) ==
    /\ recMonitor[id].pc = "written"
    /\ activeAuctionsCount' = activeAuctionsCount - 1
    /\ recMonitor' = [recMonitor EXCEPT ![id].pc = "done"]
    /\ UNCHANGED <<now, AUCTION_INTERVAL, MAX_CONCURRENT_AUCTIONS, store, call, Timestamp, monitor,
                   recovery, activeAuctions, restarts, storeFailures, manualCall>>

\* ----------------------------------------------------------- environment
\* The clock advances.
Tick ==
    /\ now < MaxTime
    /\ now' = now + 1
    /\ UNCHANGED <<AUCTION_INTERVAL, MAX_CONCURRENT_AUCTIONS, store, activeAuctionsCount, call, Timestamp,
                   monitor, recMonitor, recovery, activeAuctions, restarts,
                   storeFailures, manualCall>>

\* Mutant: the counter survives the crash.
RestartKeepsCount ==
    /\ restarts < MaxRestarts
    /\ restarts' = restarts + 1
    /\ call' = [id \in Ids |-> IF call[id] = "idle" THEN "idle" ELSE "gone"]
    /\ Timestamp' = [id \in Ids |-> 0]
    /\ monitor' = [id \in Ids |-> NoMonitor]
    /\ recMonitor' = [id \in Ids |-> NoRecMonitor]
    /\ recovery' = "spawned"
    /\ activeAuctions' = {}
    /\ manualCall' = NoManualCall
    /\ UNCHANGED <<now, AUCTION_INTERVAL, MAX_CONCURRENT_AUCTIONS, store, storeFailures, activeAuctionsCount>>

\* The process dies and is started again: every goroutine and the counter
\* are lost, the store is kept, and NewAuctionRepository runs anew.  Calls
\* of the dead process are "gone".
Restart ==
    /\ restarts < MaxRestarts
    /\ restarts' = restarts + 1
    /\ activeAuctionsCount' = 0
    /\ call' = [id \in Ids |-> IF call[id] = "idle" THEN "idle" ELSE "gone"]
    /\ Timestamp' = [id \in Ids |-> 0]
    /\ monitor' = [id \in Ids |-> NoMonitor]
    /\ recMonitor' = [id \in Ids |-> NoRecMonitor]
    /\ recovery' = "spawned"
    /\ activeAuctions' = {}
    /\ manualCall' = NoManualCall
    /\ UNCHANGED <<now, AUCTION_INTERVAL, MAX_CONCURRENT_AUCTIONS, store, storeFailures>>

\* UpdateAuctionStatus(id, Completed) called from outside the lifecycle (an
\* out-of-band close), for any id, in the store or not.
ManualClose(id) ==
    /\ \E ok \in StoreOutcomes :
         /\ store' = UpdateAuctionStatus(id, Completed, ok)
         /\ manualCall' = IF ~ok THEN [prior |-> "none", result |-> "error"]
                           ELSE [prior |-> IF store[id].present
                                           THEN store[id].status ELSE "absent",
                                 result |-> "nil"]
         /\ storeFailures' = Failed(ok)
    /\ UNCHANGED <<now, AUCTION_INTERVAL, MAX_CONCURRENT_AUCTIONS, activeAuctionsCount, call, Timestamp,
                   monitor, recMonitor, recovery, activeAuctions, restarts>>

\* ------------------------------------------------------- specifications
Next ==
    \/ \E id \in Ids : CreateAuctionCheck(id)
    \/ \E id \in Ids : CreateAuctionInsert(id)
    \/ \E id \in Ids : CreateAuctionIncrement(id)
    \/ \E id \in Ids : MonitorFire(id)
    \/ \E id \in Ids : MonitorRelease(id)
    \/ RecoveryScan
    \/ \E a \in activeAuctions : RecoveryAdmit(a)
    \/ \E a \in activeAuctions : RecoveryForceClose(a)
    \/ \E id \in Ids : RecMonitorStart(id)
    \/ \E id \in Ids : RecMonitorFire(id)
    \/ \E id \in Ids : RecMonitorRelease(id)
    \/ Tick
    \/ Restart

\* The lifecycle alone: creations, timers, recovery, crashes.
Spec == Init /\ [][Next]_vars

NextManual ==
    \/ Next
    \/ \E id \in Ids : ManualClose(id)

\* The lifecycle with out-of-band UpdateAuctionStatus calls.
SpecManual == Init /\ [][NextManual]_vars

\* Documents a database can hold when a process starts: written by
\* CreateAuction under the interval of Intervals, Active or closed since.
StoredDocuments ==
    {NoDocument} \cup
    {AuctionEntityMongo(status, Unix(t), Unix(t + Duration(i))) :
        status \in {Active, Completed}, t \in 0 .. MaxTime, i \in Intervals}

\* NewAuctionRepository on a database that holds documents already.
InitUpdate ==
    /\ now = MaxTime
    /\ AUCTION_INTERVAL \in Intervals
    /\ MAX_CONCURRENT_AUCTIONS = EnvUnset
    /\ store \in [Ids -> StoredDocuments]
    /\ activeAuctionsCount = 0
    /\ call = [id \in Ids |-> "idle"]
    /\ Timestamp = [id \in Ids |-> 0]
    /\ monitor = [id \in Ids |-> NoMonitor]
    /\ recMonitor = [id \in Ids |-> NoRecMonitor]
    /\ recovery = "spawned"
    /\ activeAuctions = {}
    /\ restarts = 0
    /\ storeFailures = 0
    /\ manualCall = NoManualCall

NextUpdate == \E id \in Ids : ManualClose(id)

\* UpdateAuctionStatus alone, called on any id of any database.
SpecUpdate == InitUpdate /\ [][NextUpdate]_vars

\* A goroutine holding a timer that has not fired yet.
Live(m) == m.pc = "armed"

\* os.Setenv("AUCTION_INTERVAL", str) and os.Unsetenv("AUCTION_INTERVAL").
Setenv(str) ==
    /\ AUCTION_INTERVAL' = EnvSet(str)
    /\ UNCHANGED <<now, MAX_CONCURRENT_AUCTIONS, store, activeAuctionsCount, call,
                   Timestamp, monitor, recMonitor, recovery, activeAuctions,
                   restarts, storeFailures, manualCall>>

Unsetenv ==
    /\ AUCTION_INTERVAL' = EnvUnset
    /\ UNCHANGED <<now, MAX_CONCURRENT_AUCTIONS, store, activeAuctionsCount, call,
                   Timestamp, monitor, recMonitor, recovery, activeAuctions,
                   restarts, storeFailures, manualCall>>

\* A new repository under any value of the variable.
InitParse ==
    /\ now = 0
    /\ AUCTION_INTERVAL \in {EnvUnset} \cup {EnvSet(str) : str \in Strings}
    /\ MAX_CONCURRENT_AUCTIONS = EnvUnset
    /\ store = [id \in Ids |-> NoDocument]
    /\ activeAuctionsCount = 0
    /\ call = [id \in Ids |-> "idle"]
    /\ Timestamp = [id \in Ids |-> 0]
    /\ monitor = [id \in Ids |-> NoMonitor]
    /\ recMonitor = [id \in Ids |-> NoRecMonitor]
    /\ recovery = "spawned"
    /\ activeAuctions = {}
    /\ restarts = 0
    /\ storeFailures = 0
    /\ manualCall = NoManualCall

NextParse ==
    \/ \E str \in Strings : Setenv(str)
    \/ Unsetenv

\* getAuctionDuration under every value the variable is given.
SpecParse == InitParse /\ [][NextParse]_vars

\* Values of MAX_CONCURRENT_AUCTIONS: not set, or the integers "0" and "2".
Ceilings == {EnvUnset, EnvSet(<<"0">>), EnvSet(<<"2">>)}

\* A new repository under any of these values.
InitCeiling ==
    /\ now = 0
    /\ AUCTION_INTERVAL \in Intervals
    /\ MAX_CONCURRENT_AUCTIONS \in Ceilings
    /\ store = [id \in Ids |-> NoDocument]
    /\ activeAuctionsCount = 0
    /\ call = [id \in Ids |-> "idle"]
    /\ Timestamp = [id \in Ids |-> 0]
    /\ monitor = [id \in Ids |-> NoMonitor]
    /\ recMonitor = [id \in Ids |-> NoRecMonitor]
    /\ recovery = "spawned"
    /\ activeAuctions = {}
    /\ restarts = 0
    /\ storeFailures = 0
    /\ manualCall = NoManualCall

\* The lifecycle with MAX_CONCURRENT_AUCTIONS configured or not.
SpecCeiling == InitCeiling /\ [][Next]_vars

\* Values of AUCTION_INTERVAL that getAuctionDuration takes a duration from:
\* the strings time.ParseDuration accepts, and the variable not set.
AcceptedIntervals ==
    {EnvUnset} \cup {EnvSet(str) : str \in {t \in Strings : ~ParseDuration(t).err}}

\* A new repository under any of these values.
InitCreate ==
    /\ now = 0
    /\ AUCTION_INTERVAL \in AcceptedIntervals
    /\ MAX_CONCURRENT_AUCTIONS = EnvUnset
    /\ store = [id \in Ids |-> NoDocument]
    /\ activeAuctionsCount = 0
    /\ call = [id \in Ids |-> "idle"]
    /\ Timestamp = [id \in Ids |-> 0]
    /\ monitor = [id \in Ids |-> NoMonitor]
    /\ recMonitor = [id \in Ids |-> NoRecMonitor]
    /\ recovery = "spawned"
    /\ activeAuctions = {}
    /\ restarts = 0
    /\ storeFailures = 0
    /\ manualCall = NoManualCall

\* CreateAuction calls and the clock.
NextCreate ==
    \/ \E id \in Ids : CreateAuctionCheck(id)
    \/ \E id \in Ids : CreateAuctionInsert(id)
    \/ \E id \in Ids : CreateAuctionIncrement(id)
    \/ Tick

\* CreateAuction alone, under every duration the configuration yields.
SpecCreate == InitCreate /\ [][NextCreate]_vars

\* The value AUCTION_INTERVAL is changed to while the process runs: "2s".
ChangedIntervals == {<<"2", "s">>}

\* The lifecycle in an environment that changes under the running process.
NextEnv ==
    \/ Next
    \/ \E str \in ChangedIntervals : Setenv(str)

SpecEnv == Init /\ [][NextEnv]_vars

\* The clock of a process that is left to run: it advances to MaxTime, and
\* past it for as long as an armed timer is still waiting for its deadline.
TickLive ==
    /\ \/ now < MaxTime
       \/ \E id \in Ids : Live(monitor[id]) /\ now < monitor[id].deadline
       \/ \E id \in Ids : Live(recMonitor[id]) /\ now < recMonitor[id].deadline
    /\ now' = now + 1
    /\ UNCHANGED <<AUCTION_INTERVAL, MAX_CONCURRENT_AUCTIONS, store, activeAuctionsCount, call, Timestamp,
                   monitor, recMonitor, recovery, activeAuctions, restarts,
                   storeFailures, manualCall>>

\* Every store call of the step succeeds.
StoreSucceeds == storeFailures' = storeFailures

\* The lifecycle with a store that does not fail.
NextLive ==
    /\ Next \/ TickLive
    /\ StoreSucceeds

\* The Go scheduler runs every runnable goroutine, a timer whose deadline
\* has passed delivers on its channel, and time passes.
Fairness ==
    /\ \A id \in Ids :
         /\ WF_vars(CreateAuctionInsert(id) /\ StoreSucceeds)
         /\ WF_vars(CreateAuctionIncrement(id))
         /\ WF_vars(MonitorFire(id) /\ StoreSucceeds)
         /\ WF_vars(MonitorRelease(id))
         /\ WF_vars(RecMonitorStart(id) /\ StoreSucceeds)
         /\ WF_vars(RecMonitorFire(id) /\ StoreSucceeds)
         /\ WF_vars(RecMonitorRelease(id))
    /\ WF_vars(RecoveryScan /\ StoreSucceeds)
    /\ WF_vars(\E a \in activeAuctions : RecoveryAdmit(a))
    /\ WF_vars(\E a \in activeAuctions : RecoveryForceClose(a) /\ StoreSucceeds)
    /\ WF_vars(TickLive)

\* The lifecycle under fair scheduling, crashes included (each followed by
\* the restart), with a store that does not fail.
SpecLive == Init /\ [][NextLive]_vars /\ Fairness

\* The instant a restarted process starts at in SpecRecovery: one second
\* after the earliest createdAt, so that of the stored documents those with
\* endTime 1 s are overdue and those with endTime 2 s have time left.
StartTime == TicksPerSecond

\* NewAuctionRepository after a crash, on the database the earlier
\* processes left: any stored documents, the counter at 0, no goroutine but
\* the recovery pass just issued.
InitRecovery ==
    /\ now = StartTime
    /\ AUCTION_INTERVAL \in Intervals
    /\ MAX_CONCURRENT_AUCTIONS = EnvUnset
    /\ store \in [Ids -> StoredDocuments]
    /\ activeAuctionsCount = 0
    /\ call = [id \in Ids |-> IF store[id].present THEN "gone" ELSE "idle"]
    /\ Timestamp = [id \in Ids |-> 0]
    /\ monitor = [id \in Ids |-> NoMonitor]
    /\ recMonitor = [id \in Ids |-> NoRecMonitor]
    /\ recovery = "spawned"
    /\ activeAuctions = {}
    /\ restarts = 1
    /\ storeFailures = 0
    /\ manualCall = NoManualCall

\* The recovery pass, the goroutines it starts, and the clock.
NextRecovery ==
    \/ RecoveryScan
    \/ \E a \in activeAuctions : RecoveryAdmit(a)
    \/ \E a \in activeAuctions : RecoveryForceClose(a)
    \/ \E id \in Ids : RecMonitorStart(id)
    \/ \E id \in Ids : RecMonitorFire(id)
    \/ \E id \in Ids : RecMonitorRelease(id)
    \/ TickLive

\* Recovery alone: a restarted process that takes no CreateAuction call.
SpecRecovery == InitRecovery /\ [][NextRecovery]_vars

\* ================================================================ claims

\* Calls of the running process that returned nil.
Created == {id \in Ids : call[id] = "ok"}

\* C1: in every reachable state the admitted count is at most the ceiling
\* (the limit check and the increment of an admission are one atomic step).
C1_CountWithinCeiling == activeAuctionsCount <= getMaxConcurrentAuctions

\* A CreateAuction call for id enters the repository in this step.
Enters(id) == call[id] = "idle" /\ call'[id] # "idle"

\* C2: a CreateAuction call made while the admitted count is at the ceiling
\* returns the limit error and leaves no partial state: the store, every
\* timer goroutine and the admitted count are as before the call.
C2_RejectedLeavesNoState ==
    [][\A id \in Ids :
         (Enters(id) /\ activeAuctionsCount >= getMaxConcurrentAuctions)
         => /\ call'[id] = "limit"
            /\ store' = store
            /\ monitor' = monitor
            /\ recMonitor' = recMonitor
            /\ activeAuctionsCount' = activeAuctionsCount]_vars

\* A call was rejected at the ceiling: nothing of it is in the store or armed.
C2_Witness ==
    \E id \in Ids :
        /\ call[id] = "limit"
        /\ ~store[id].present
        /\ monitor[id].pc = "none"
        /\ activeAuctionsCount >= getMaxConcurrentAuctions

\* No timer of the running process has fired.
NoTimerFired ==
    \A i \in Ids : /\ monitor[i].pc \in {"none", "armed"}
                   /\ recMonitor[i].pc \in {"none", "spawned", "armed"}

\* The timer of one auction created by the running process has fired, written
\* Completed and released its slot.
OneClosed == \E i \in Created : monitor[i].pc = "done"

\* C3: ceiling N, empty store at start, N creations have succeeded: before
\* any timer fires the next creation fails with the limit error; once the
\* timer of one of the N has fired and closed its auction, the next creation
\* is admitted.
C3_NextCreationAfterN ==
    [][\A id \in Ids :
         (/\ Enters(id)
          /\ restarts = 0
          /\ storeFailures = 0
          /\ Cardinality(Created) = getMaxConcurrentAuctions)
         => /\ NoTimerFired => call'[id] = "limit"
            /\ OneClosed => call'[id] = "checked"]_vars

\* C4: an auction created at t0 = Timestamp with duration d, no restart and
\* no failed store write: its persisted status is Active at every instant
\* before t0 + d, and Completed from the moment its timer has fired.
C4_ActiveUntilExpiry ==
    \A id \in Ids :
        (/\ restarts = 0
         /\ storeFailures = 0
         /\ call[id] \in {"inserted", "ok"})
        => /\ (monitor[id].pc \in {"none", "armed"}
               /\ now < Timestamp[id] + getAuctionDuration)
              => store[id].status = Active
           /\ monitor[id].pc \in {"written", "done"}
              => store[id].status = Completed

\* The recovery pass of the running process has handled every document it
\* found, each one through the expired branch of its goroutine, and the
\* process has taken no creation.
OnlyOverdueRecovered ==
    /\ recovery = "done"
    /\ \A id \in Ids : call[id] \in {"idle", "gone"}
    /\ \A id \in Ids : recMonitor[id].pc \in {"none", "expired"}
    /\ \E id \in Ids : recMonitor[id].pc = "expired"

\* C5: a persisted Active record that is overdue at process start is set to
\* Completed by recovery and takes no admission slot: after recovery of
\* overdue records and nothing else the admitted count is 0.
C5_OverdueTakesNoSlot ==
    OnlyOverdueRecovered
    => /\ activeAuctionsCount = 0
       /\ storeFailures = 0
          => \A id \in Ids : recMonitor[id].pc = "expired"
                             => store[id].status = Completed

\* C6: a record recovery admits with its endTime still ahead gets a timer
\* for endTime - now, so armed to fire at the persisted endTime and not a
\* full interval later: it is Active before that instant and its timer
\* closes it only once the instant is reached.
C6_RecoveryTimerUsesRemaining ==
    \A id \in Ids :
        /\ recMonitor[id].pc = "armed"
           => /\ recMonitor[id].deadline = TimeUnix(store[id].endTime)
              /\ now < TimeUnix(store[id].endTime) => store[id].status = Active
        /\ recMonitor[id].pc \in {"written", "done"}
           => /\ now >= TimeUnix(store[id].endTime)
              /\ store[id].status = Completed

\* A record left Active by an earlier process has been closed by the timer
\* that recovery armed for it.
C6_Witness ==
    \E id \in Ids :
        /\ restarts >= 1
        /\ call[id] = "gone"
        /\ recMonitor[id].pc = "written"
        /\ store[id].status = Completed

\* C7: each auction id has at most one live expiration timer: a timer armed
\* by CreateAuction and one armed by the recovery pass never coexist.
C7_AtMostOneLiveTimer ==
    \A id \in Ids : ~(Live(monitor[id]) /\ Live(recMonitor[id]))

\* C8: status is one-way.  No step removes a document, a new document is
\* Active, and the only change of a status is from Active to Completed, so a
\* Completed auction stays Completed.
C8_StatusOneWay ==
    [][\A id \in Ids :
         /\ store[id].present => store'[id].present
         /\ (~store[id].present /\ store'[id].present)
            => store'[id].status = Active
         /\ (store[id].present /\ store'[id].status # store[id].status)
            => (store[id].status = Active /\ store'[id].status = Completed)]_vars

\* Two goroutines have written Completed to one id, the later of them onto
\* an auction that was Completed already.
C8_Witness ==
    \E id \in Ids :
        /\ monitor[id].pc \in {"written", "done"}
        /\ recMonitor[id].pc \in {"written", "done"}
        /\ store[id].status = Completed

\* C9: marking Completed is idempotent: a successful UpdateAuctionStatus(id,
\* Completed) on an id that is Completed already, or that is not in the
\* store, returns nil and leaves the store as it was.
C9_MarkCompletedIdempotent ==
    [][\A id \in Ids :
         (/\ ManualClose(id)
          /\ storeFailures' = storeFailures
          /\ (~store[id].present \/ store[id].status = Completed))
         => /\ store' = store
            /\ manualCall'.result = "nil"]_vars

\* UpdateAuctionStatus has returned nil for an auction that was Completed.
C9_Witness == manualCall = [prior |-> Completed, result |-> "nil"]

\* C10: a CreateAuction call whose insert fails after its limit check passed
\* returns the error having changed neither the admitted count (the check
\* took no slot) nor the store nor any timer.
C10_InsertFailureLeaksNoSlot ==
    [][\A id \in Ids :
         /\ (call[id] = "idle" /\ call'[id] = "checked")
            => activeAuctionsCount' = activeAuctionsCount
         /\ (call[id] = "checked" /\ call'[id] = "insertError")
            => /\ activeAuctionsCount' = activeAuctionsCount
               /\ store' = store
               /\ monitor' = monitor
               /\ recMonitor' = recMonitor]_vars

\* A call has returned the insert error: no document and no timer for its id.
C10_Witness ==
    \E id \in Ids :
        /\ call[id] = "insertError"
        /\ ~store[id].present
        /\ monitor[id].pc = "none"

\* C11: a timer (of a creation or of recovery) whose write of Completed
\* fails does not decrement the admitted count, in that step or later: its
\* goroutine has returned and the slot stays taken.
C11_FailedWriteKeepsSlot ==
    [][\A id \in Ids :
         /\ (monitor[id].pc = "armed" /\ monitor'[id].pc = "failed")
            => activeAuctionsCount' = activeAuctionsCount
         /\ (recMonitor[id].pc = "armed" /\ recMonitor'[id].pc = "failed")
            => activeAuctionsCount' = activeAuctionsCount
         /\ monitor[id].pc = "failed" => monitor'[id].pc \in {"failed", "none"}
         /\ recMonitor[id].pc = "failed"
            => recMonitor'[id].pc \in {"failed", "none"}]_vars

\* A timer's write has failed, the auction is Active still and its slot is
\* counted.
C11_Witness ==
    \E id \in Ids :
        /\ monitor[id].pc = "failed" \/ recMonitor[id].pc = "failed"
        /\ store[id].status = Active
        /\ activeAuctionsCount >= 1

\* Goroutines that have incremented the admitted count (CreateAuction on
\* their behalf, or recovery) and have not decremented it.
SlotHolders ==
    Cardinality({id \in Ids : monitor[id].pc \in {"armed", "written", "failed"}})
    + Cardinality({id \in Ids : recMonitor[id].pc \in
                      {"spawned", "armed", "written", "failed", "expired"}})

\* C12: the admitted count is never negative: it is the number of
\* increments not yet matched by the decrement of the goroutine they were
\* made for, under every interleaving of creations, recovery and timers.
C12_CountNeverNegative ==
    /\ activeAuctionsCount >= 0
    /\ activeAuctionsCount = SlotHolders

\* Every increment made so far has been matched by its timer's decrement.
C12_Witness ==
    /\ activeAuctionsCount = 0
    /\ \E id \in Ids : monitor[id].pc = "done" \/ recMonitor[id].pc = "done"

\* C13: a record recovery cannot admit is closed at once, so that when the
\* pass has finished and no store call has failed, every Active record has
\* an expiration goroutine (armed, or started by the pass and about to arm
\* or close) or is the record of a CreateAuction call still in progress.
C13_NoOrphanAfterRecovery ==
    (recovery = "done" /\ storeFailures = 0)
    => \A id \in Ids :
         (store[id].present /\ store[id].status = Active)
         => \/ Live(monitor[id])
            \/ recMonitor[id].pc \in {"spawned", "armed"}
            \/ call[id] = "inserted"

\* The pass has finished and has closed a record ahead of its endTime, which
\* no timer does: the record found the count at the ceiling.
C13_Witness ==
    /\ recovery = "done"
    /\ storeFailures = 0
    /\ \E id \in Ids :
         /\ call[id] = "gone"
         /\ recMonitor[id].pc = "none"
         /\ store[id].status = Completed
         /\ now < TimeUnix(store[id].endTime)

\* C14: on a new repository, with every CreateAuction call returned and n of
\* them successful (n at most the ceiling): the admitted count is n while no
\* timer has fired, and 0 once all n timers have fired and released.
C14_CountFollowsCreations ==
    (/\ restarts = 0
     /\ storeFailures = 0
     /\ \A id \in Ids : call[id] \in {"idle", "ok", "limit"}
     /\ Cardinality(Created) <= getMaxConcurrentAuctions)
    => /\ (\A id \in Created : monitor[id].pc = "armed")
          => activeAuctionsCount = Cardinality(Created)
       /\ (\A id \in Created : monitor[id].pc = "done")
          => activeAuctionsCount = 0

\* The running process has taken no CreateAuction call.
NoCreations == \A id \in Ids : call[id] \in {"idle", "gone"}

\* Records that are Active in the store.
ActiveRecords == {id \in Ids : store[id].present /\ store[id].status = Active}

\* C15: the admitted count is 0 at process start and rebuilt by recovery
\* alone.  In a restarted process that takes no creations: the count is 0
\* until recovery admits; when the pass has finished with k Active records
\* (k at most the ceiling), none overdue and none closed yet, each has its
\* recovery goroutine and the count is k; when every recovery timer has
\* fired and released, the count is 0.
C15_CountRebuiltByRecovery ==
    (restarts >= 1 /\ NoCreations)
    => /\ recovery = "spawned" => activeAuctionsCount = 0
       /\ (/\ recovery = "done"
           /\ \A id \in Ids : recMonitor[id].pc \in {"none", "spawned", "armed"}
           /\ Cardinality(ActiveRecords) <= getMaxConcurrentAuctions)
          => /\ activeAuctionsCount = Cardinality(ActiveRecords)
             /\ \A id \in ActiveRecords : recMonitor[id].pc \in {"spawned", "armed"}
       /\ (/\ recovery = "done"
           /\ \A id \in Ids : recMonitor[id].pc \in {"none", "done"})
          => activeAuctionsCount = 0

\* A restarted process has recovered a record, its timer has fired and
\* released, and the count is back at 0.
C15_Witness ==
    /\ restarts >= 1
    /\ NoCreations
    /\ recovery = "done"
    /\ \A id \in Ids : recMonitor[id].pc \in {"none", "done"}
    /\ \E id \in Ids : recMonitor[id].pc = "done" /\ store[id].status = Completed
    /\ activeAuctionsCount = 0

\* C16: with a store that does not fail, fair scheduling of goroutines and
\* timers, and a recovery pass after every crash, every auction persisted
\* as Active is Completed eventually.
C16_EveryAuctionCloses ==
    \A id \in Ids :
        (store[id].present /\ store[id].status = Active)
        ~> (store[id].status = Completed)

\* Every id has been created and is Completed, with a crash on the way.
C16_Witness ==
    /\ restarts >= 1
    /\ \A id \in Ids : store[id].present /\ store[id].status = Completed

\* A decimal number: one or more digits.
IsNumber(s) == s # <<>> /\ \A k \in 1 .. Len(s) : Digit(s[k])

RECURSIVE NumberValue(_)
NumberValue(s) ==
    IF s = <<>> THEN 0
    ELSE 10 * NumberValue(SubSeq(s, 1, Len(s) - 1)) + DigitValue(s[Len(s)])

\* The units of a duration string that Chars can spell, in ticks.
UnitTicks == (<<"s">> :> TicksPerSecond) @@ (<<"h">> :> 60 * 60 * TicksPerSecond)

\* A term of a duration string: a decimal number and a unit suffix.
IsTerm(s) ==
    \E k \in 1 .. Len(s) - 1 :
        /\ IsNumber(SubSeq(s, 1, k))
        /\ SubSeq(s, k + 1, Len(s)) \in DOMAIN UnitTicks

TermValue(s) ==
    LET k == CHOOSE k \in 1 .. Len(s) - 1 : IsNumber(SubSeq(s, 1, k))
                                             /\ SubSeq(s, k + 1, Len(s)) \in DOMAIN UnitTicks
    IN NumberValue(SubSeq(s, 1, k)) * UnitTicks[SubSeq(s, k + 1, Len(s))]

\* One or more terms, one after the other.
RECURSIVE IsTerms(_)
IsTerms(s) ==
    \E k \in 1 .. Len(s) :
        /\ IsTerm(SubSeq(s, 1, k))
        /\ k = Len(s) \/ IsTerms(SubSeq(s, k + 1, Len(s)))

RECURSIVE TermsValue(_)
TermsValue(s) ==
    LET k == CHOOSE k \in 1 .. Len(s) :
                 /\ IsTerm(SubSeq(s, 1, k))
                 /\ k = Len(s) \/ IsTerms(SubSeq(s, k + 1, Len(s)))
    IN TermValue(SubSeq(s, 1, k))
       + (IF k = Len(s) THEN 0 ELSE TermsValue(SubSeq(s, k + 1, Len(s))))

Unsigned(s) == IF s # <<>> /\ Head(s) \in {"-", "+"} THEN Tail(s) ELSE s

\* A valid duration string: a possibly signed sequence of decimal numbers,
\* each with a unit suffix, or "0".
ValidDurationString(s) == Unsigned(s) = <<"0">> \/ IsTerms(Unsigned(s))

DurationStringValue(s) ==
    LET v == IF Unsigned(s) = <<"0">> THEN 0 ELSE TermsValue(Unsigned(s))
    IN IF s # <<>> /\ Head(s) = "-" THEN -v ELSE v

\* C17: the auction duration is the value of the interval setting when that
\* is a valid duration string, and five minutes when the setting is unset,
\* empty or not a valid duration string.
C17_DurationParsedOrDefault ==
    IF AUCTION_INTERVAL.set /\ ValidDurationString(AUCTION_INTERVAL.value)
    THEN getAuctionDuration = DurationStringValue(AUCTION_INTERVAL.value)
    ELSE getAuctionDuration = 5 * 60 * TicksPerSecond

\* The setting is the valid duration string "2h" and the duration is two
\* hours, not the default.
C17_Witness ==
    /\ AUCTION_INTERVAL = EnvSet(<<"2", "h">>)
    /\ getAuctionDuration = 2 * 60 * 60 * TicksPerSecond

\* The ceiling the configuration asks for: the integer MAX_CONCURRENT_AUCTIONS
\* is set to, or the default (the source's 50, scaled as MaxAuctions).
ConfiguredCeiling ==
    IF MAX_CONCURRENT_AUCTIONS.set /\ IsNumber(MAX_CONCURRENT_AUCTIONS.value)
    THEN NumberValue(MAX_CONCURRENT_AUCTIONS.value)
    ELSE MaxAuctions

\* C18: admission enforces the configured ceiling: CreateAuction passes its
\* limit check exactly when the admitted count is below the value of
\* MAX_CONCURRENT_AUCTIONS (the default when it is not set), and recovery
\* admits a record exactly when the count is below it.
C18_CeilingIsConfigured ==
    [][/\ \A id \in Ids :
            /\ (call[id] = "idle" /\ call'[id] = "checked")
               => activeAuctionsCount < ConfiguredCeiling
            /\ (call[id] = "idle" /\ call'[id] = "limit")
               => activeAuctionsCount >= ConfiguredCeiling
       /\ \A a \in activeAuctions :
            /\ RecoveryAdmit(a) => activeAuctionsCount < ConfiguredCeiling
            /\ RecoveryForceClose(a) => activeAuctionsCount >= ConfiguredCeiling]_vars

\* The persisted endTime is the persisted createdAt plus the duration.
EndTimeIsCreatedAtPlusDuration ==
    \A id \in Ids :
        store[id].present
        => TimeUnix(store[id].endTime)
               = TimeUnix(store[id].timestamp) + getAuctionDuration

\* C19: every record CreateAuction persists has endTime = createdAt + the
\* configured duration, and endTime strictly after createdAt, for every
\* duration the configuration parser accepts.
C19_EndTimeAfterCreatedAt ==
    /\ EndTimeIsCreatedAtPlusDuration
    /\ \A id \in Ids :
         store[id].present => store[id].endTime > store[id].timestamp

\* CreateAuction calls the running process has taken.
Started == {id \in Ids : call[id] \notin {"idle", "gone"}}

\* Records of earlier processes that hold a slot through recovery.
Recovered ==
    {id \in Ids : call[id] = "gone" /\ recMonitor[id].pc \in {"spawned", "armed"}}

\* C20: k CreateAuction calls on a repository whose admitted count is c (the
\* records recovery admitted), with c + k at most the ceiling and no store
\* failure: when all have returned, and before any timer fires, all k have
\* succeeded and the admitted count is c + k.
C20_ConcurrentCreationsAllCounted ==
    (/\ storeFailures = 0
     /\ recovery = "done"
     /\ \A id \in Ids : monitor[id].pc \in {"none", "armed"}
     /\ \A id \in Ids : recMonitor[id].pc \in {"none", "spawned", "armed"}
     /\ \A id \in Started : call[id] \in {"ok", "limit", "insertError"}
     /\ Cardinality(Recovered) + Cardinality(Started) <= getMaxConcurrentAuctions)
    => /\ \A id \in Started : call[id] = "ok"
       /\ activeAuctionsCount = Cardinality(Recovered) + Cardinality(Started)

StartupDurations == {Duration(i) : i \in Intervals}

\* The duration between the persisted createdAt and endTime of a document.
PersistedDuration(doc) == TimeUnix(doc.endTime) - TimeUnix(doc.timestamp)

\* C22: the interval is read once at process start.  In the first process,
\* whatever happens to the setting later, each record CreateAuction inserts
\* has endTime = createdAt + the startup duration, and the timer armed for a
\* creation runs for the duration its endTime was computed with.
C22_ConfigurationReadOnce ==
    [][\A id \in Ids :
         /\ (restarts = 0 /\ ~store[id].present /\ store'[id].present)
            => PersistedDuration(store'[id]) \in StartupDurations
         /\ (monitor[id].pc = "none" /\ monitor'[id].pc = "armed")
            => monitor'[id].deadline - now = PersistedDuration(store[id])]_vars

\* C23: the steps of a successful CreateAuction call have exactly these
\* effects: the limit check changes nothing; the insert adds one record for
\* the id, Active, with endTime = Timestamp + duration, and nothing else;
\* the last step adds exactly 1 to the admitted count and arms one timer
\* for the id with the full configured duration, and nothing else.
C23_CreateAuctionEffects ==
    [][\A id \in Ids :
         /\ (call[id] = "idle" /\ call'[id] = "checked")
            => /\ store' = store
               /\ activeAuctionsCount' = activeAuctionsCount
               /\ monitor' = monitor
               /\ recMonitor' = recMonitor
         /\ (call[id] = "checked" /\ call'[id] = "inserted")
            => /\ ~store[id].present
               /\ store' = [store EXCEPT ![id] =
                      [present |-> TRUE, status |-> Active,
                       timestamp |-> Unix(Timestamp[id]),
                       endTime |-> Unix(Timestamp[id] + getAuctionDuration)]]
               /\ activeAuctionsCount' = activeAuctionsCount
               /\ monitor' = monitor
               /\ recMonitor' = recMonitor
         /\ (call[id] = "inserted" /\ call'[id] = "ok")
            => /\ store' = store
               /\ activeAuctionsCount' = activeAuctionsCount + 1
               /\ monitor[id].pc = "none"
               /\ monitor' = [monitor EXCEPT ![id] =
                      [pc |-> "armed", deadline |-> now + getAuctionDuration]]
               /\ recMonitor' = recMonitor]_vars

\* A call has returned nil: its record is Active, it holds the one slot
\* taken and its timer is the one timer of its id.
C23_Witness ==
    \E id \in Ids :
        /\ call[id] = "ok"
        /\ store[id].status = Active
        /\ activeAuctionsCount = 1
        /\ Live(monitor[id])
        /\ recMonitor[id].pc = "none"

\* C24: a timer writes Completed before it releases its slot: in every
\* state where a timer goroutine (of a creation or of recovery) has
\* decremented the admitted count for an id, the id's status is Completed.
C24_WriteBeforeRelease ==
    \A id \in Ids :
        (monitor[id].pc = "done" \/ recMonitor[id].pc = "done")
        => (store[id].present /\ store[id].status = Completed)

\* A creation timer has fired, written and released with other auctions
\* still counted.
C24_Witness ==
    \E id \in Ids :
        /\ monitor[id].pc = "done"
        /\ store[id].status = Completed
        /\ activeAuctionsCount >= 1

\* C25: a goroutine started with remaining time <= 0 writes Completed in
\* its first step, without arming a timer, and performs no slot release:
\* the admitted count is unchanged by that step and the goroutine has
\* returned.
C25_ExpiredClosesWithoutRelease ==
    [][\A id \in Ids :
         /\ (/\ recMonitor[id].pc = "spawned"
             /\ recMonitor[id].endTime - now <= 0
             /\ recMonitor'[id].pc \notin {"spawned", "none"})
            => /\ recMonitor'[id].pc = "expired"
               /\ activeAuctionsCount' = activeAuctionsCount
               /\ storeFailures' = storeFailures => store'[id].status = Completed
         /\ recMonitor[id].pc = "expired"
            => recMonitor'[id].pc \in {"expired", "none"}]_vars

\* An overdue record has been closed by the first step of its goroutine and
\* the slot recovery took for it is counted still.
C25_Witness ==
    \E id \in Ids :
        /\ recMonitor[id].pc = "expired"
        /\ store[id].status = Completed
        /\ monitor[id].pc = "none"
        /\ activeAuctionsCount >= 1

\* C26: overdue records are closed inside the recovery pass: when the pass
\* has handled a scanned record whose endTime is not after now, and no store
\* call has failed, that record is Completed, so that it is Completed when
\* the pass finishes.
C26_OverdueClosedWithinPass ==
    [][\A a \in activeAuctions :
         (/\ recovery = "loop"
          /\ a \notin activeAuctions'
          /\ restarts' = restarts
          /\ storeFailures' = storeFailures
          /\ now >= TimeUnix(a.EndTime))
         => store'[a.id].status = Completed]_vars

\* C27: the recovery pass runs exactly once per process start, on its own
\* goroutine: a process start leaves it ready to run, it scans once, and
\* once it has finished or failed it takes no further step in that process.
\* No step of a CreateAuction call waits for it.
C27_RecoveryOncePerStart ==
    [][/\ restarts' # restarts => recovery' = "spawned"
       /\ restarts' = restarts
          => /\ recovery = "spawned" => recovery' \in {"spawned", "loop", "done", "failed"}
             /\ recovery = "loop" => recovery' \in {"loop", "done"}
             /\ recovery \in {"done", "failed"} => recovery' = recovery
       /\ \A id \in Ids :
            call'[id] \in {"checked", "inserted", "ok"} /\ call'[id] # call[id]
            => recovery' = recovery]_vars

\* A CreateAuction call has started and returned nil while the recovery
\* pass of its process has not begun.
C27_Witness ==
    /\ recovery = "spawned"
    /\ \E id \in Ids : call[id] = "ok"

\* C28: once a record is inserted, no step (status update, timer firing,
\* recovery pass, restart) removes it or changes its createdAt or endTime:
\* the status is the only field written.  The id is the key of the store.
C28_OnlyStatusWritten ==
    [][\A id \in Ids :
         store[id].present
         => /\ store'[id].present
            /\ store'[id].timestamp = store[id].timestamp
            /\ store'[id].endTime = store[id].endTime]_vars

\* A status update from outside has closed an Active auction, whose endTime
\* is the one it was inserted with.
C28_Witness ==
    /\ manualCall = [prior |-> Active, result |-> "nil"]
    /\ \E id \in Ids :
         /\ store[id].status = Completed
         /\ monitor[id].pc \notin {"written", "done"}
         /\ recMonitor[id].pc \notin {"written", "done", "expired"}
         /\ store[id].endTime > store[id].timestamp

\* C29: a recovery scan that fails abandons the pass with no state change:
\* the failing step writes no status, arms no timer and leaves the admitted
\* count as it was, and a pass that has failed has started no goroutine.
C29_FailedScanChangesNothing ==
    [][/\ (recovery = "spawned" /\ recovery' = "failed")
          => /\ store' = store
             /\ activeAuctionsCount' = activeAuctionsCount
             /\ monitor' = monitor
             /\ recMonitor' = recMonitor
       /\ recovery' = "failed"
          => /\ activeAuctions' = {}
             /\ \A id \in Ids : recMonitor'[id].pc = "none"]_vars

\* The scan of a restarted process has failed: a record of the earlier
\* process is Active, with no timer, and nothing is counted.
C29_Witness ==
    /\ recovery = "failed"
    /\ activeAuctionsCount = 0
    /\ \E id \in Ids :
         /\ call[id] = "gone"
         /\ store[id].status = Active
         /\ recMonitor[id].pc = "none"

\* A timer of id has fired and its write of Completed has failed.
TimerWriteFailed(id) == monitor[id].pc = "failed" \/ recMonitor[id].pc = "failed"

\* C30: a timer whose status write fails makes no second attempt, and no
\* other write is attempted for its id in that process: the auction stays
\* Active until a restart, when it is overdue for the recovery pass.
C30_NoRetryUntilRestart ==
    [][\A id \in Ids :
         /\ monitor[id].pc = "failed" /\ restarts' = restarts
            => monitor'[id].pc = "failed"
         /\ recMonitor[id].pc = "failed" /\ restarts' = restarts
            => recMonitor'[id].pc = "failed"
         /\ (TimerWriteFailed(id) /\ store[id].status = Active)
            => /\ now >= TimeUnix(store[id].endTime)
               /\ restarts' = restarts => store'[id].status = Active]_vars

\* The auction id holds a slot through a timer that is pending (admitted,
\* armed or fired, and not yet released).
TimerPending(id) ==
    \/ monitor[id].pc \in {"armed", "written"}
    \/ recMonitor[id].pc \in {"spawned", "armed", "written"}

\* Admitted auctions that still hold their slot: a pending timer, or a timer
\* whose status write failed.
SlotsHeld == {id \in Ids : TimerPending(id) \/ TimerWriteFailed(id)}

\* C31: in every reachable state the admitted count is the number of
\* admitted auctions that still hold their slot (timer pending, or timer
\* write failed); with no failed timer write and no timer pending it is 0.
C31_CountIsSlotsHeld ==
    /\ activeAuctionsCount = Cardinality(SlotsHeld)
    /\ (\A id \in Ids : ~TimerPending(id) /\ ~TimerWriteFailed(id))
       => activeAuctionsCount = 0

\* Auctions that hold a slot and are, or were when the process started,
\* really to be monitored: creations, and records recovery admitted whose
\* endTime was ahead when the process started.
Monitored ==
    {id \in Ids :
        \/ monitor[id].pc \in {"armed", "written", "failed"}
        \/ /\ recMonitor[id].pc \in {"spawned", "armed", "written", "failed", "expired"}
           /\ recMonitor[id].endTime > StartTime}

\* The pass handles document a in this step through its else branch (no
\* slot taken, the close attempted).
ForceCloses(a) ==
    /\ recovery = "loop"
    /\ a \in activeAuctions
    /\ a \notin activeAuctions'
    /\ restarts' = restarts
    /\ activeAuctionsCount' = activeAuctionsCount

\* C32: the recovery pass force-closes a record whose endTime is still ahead
\* only when the ceiling is reached by auctions really being monitored
\* (creations, or records admitted with time left); records overdue at
\* process start that the pass admitted earlier never cause it.
C32_ForceCloseOnlyAtRealCeiling ==
    [][\A a \in activeAuctions :
         (ForceCloses(a) /\ now < TimeUnix(a.EndTime))
         => Cardinality(Monitored) >= getMaxConcurrentAuctions]_vars

\* The pass handles document a in this step through its if branch: a slot
\* is taken and the goroutine of the record started.
Admits(a) ==
    /\ recovery = "loop"
    /\ a \in activeAuctions
    /\ a \notin activeAuctions'
    /\ restarts' = restarts
    /\ activeAuctionsCount' = activeAuctionsCount + 1
    /\ recMonitor'[a.id].pc = "spawned"

\* C33: a force-close that fails during the recovery pass does not stop the
\* pass.  The failing step takes only its own record off the records still
\* to handle and the pass stays in its loop while any remain; the pass ends
\* only with none left; and a record leaves the pass only by being admitted
\* (slot taken, goroutine started) or by its force-close being attempted.
C33_FailedForceCloseGoesOn ==
    [][/\ \A a \in activeAuctions :
            (ForceCloses(a) /\ storeFailures' # storeFailures)
            => /\ activeAuctions' = activeAuctions \ {a}
               /\ recovery' = IF activeAuctions' = {} THEN "done" ELSE "loop"
               /\ store' = store
       /\ recovery' \in {"done", "failed"} => activeAuctions' = {}
       /\ (recovery = "loop" /\ restarts' = restarts)
          => \A a \in activeAuctions \ activeAuctions' :
                /\ activeAuctions' = activeAuctions \ {a}
                /\ Admits(a) \/ ForceCloses(a)]_vars

\* A force-close of the running pass has failed (no other store call has)
\* and the pass is in its loop with records still to handle.
C33_Witness ==
    /\ recovery = "loop"
    /\ activeAuctions # {}
    /\ restarts = 0
    /\ storeFailures = 1
    /\ \A id \in Ids : /\ call[id] # "insertError"
                       /\ monitor[id].pc # "failed"
                       /\ recMonitor[id].pc # "failed"
    /\ \E id \in Ids : /\ store[id].present
                       /\ store[id].status = Active
                       /\ id \notin {a.id : a \in activeAuctions}

\* C34: closing one auction affects only that auction: in a step that sets
\* the persisted status of an id from Active to Completed (a timer firing or
\* the recovery pass), the document of every other id is unchanged and the
\* admitted count changes by at most 1.
C34_CloseAffectsOneAuction ==
    [][\A id \in Ids :
         (/\ store[id].present
          /\ store[id].status = Active
          /\ store'[id].status = Completed)
         => /\ \A j \in Ids \ {id} : store'[j] = store[j]
            /\ activeAuctionsCount' - activeAuctionsCount \in {-1, 0, 1}]_vars

\* A timer has closed one auction while another auction is Active.
C34_Witness ==
    \E id \in Ids : \E j \in Ids \ {id} :
        /\ store[id].status = Completed
        /\ \/ monitor[id].pc \in {"written", "done"}
           \/ recMonitor[id].pc \in {"written", "done", "expired"}
        /\ store[j].present
        /\ store[j].status = Active

====
